---- MODULE Spec2Model ----
(***************************************************************************)
(* A model of the Shion backend (src/shion_backend):                       *)
(*   - process_chat (ai_agent.py): history conversion, tool-provider       *)
(*     session, the function-calling loop and the final response           *)
(*     extraction;                                                         *)
(*   - chat_endpoint (main.py): the POST /chat handler around it;          *)
(*   - run_analysis_cycle / run_pdca_check (financial_analyst.py): the     *)
(*     periodic analysis cycle with its learning-notes log.                *)
(*                                                                         *)
(* Texts are sequences of tokens: "ws" is a run of whitespace, "fence" is  *)
(* the three-backtick marker, "jsontag" the letters json, and the body     *)
(* tokens stand for a JSON document of one kind ("reply", "num", "list",   *)
(* "partial") or for text that is no JSON ("junk").                        *)
(***************************************************************************)
EXTENDS Integers, Sequences, FiniteSets, TLC

(***************************************************************************)
(* Bounds of the model.                                                    *)
(***************************************************************************)
\* tool-call rounds an unconstrained model may ask for in one chat turn
MaxRounds == 1
\* function calls in one model response
MaxCalls == 2
\* rounds followed when the model is the always-requesting stub
StubRounds == 11

(***************************************************************************)
(* Program constants.                                                      *)
(***************************************************************************)
\* parameters of process_chat(message, history)
ProcessChatParams == 2
\* arguments chat_endpoint passes: message, history, image_base64
ChatEndpointArgs == 3

(***************************************************************************)
(* Text helpers: str.strip, str.startswith, str.endswith.                  *)
(***************************************************************************)
RECURSIVE LStrip(_)
LStrip(s) == IF s # <<>> /\ Head(s) = "ws" THEN LStrip(Tail(s)) ELSE s

RECURSIVE RStrip(_)
RStrip(s) ==
    IF s # <<>> /\ s[Len(s)] = "ws" THEN RStrip(SubSeq(s, 1, Len(s) - 1)) ELSE s

Strip(s) == RStrip(LStrip(s))

StartsWith(s, p) == Len(s) >= Len(p) /\ SubSeq(s, 1, Len(p)) = p

EndsWith(s, p) == Len(s) >= Len(p) /\ SubSeq(s, Len(s) - Len(p) + 1, Len(s)) = p

(***************************************************************************)
(* json.loads on a token text. JSON allows whitespace around the document; *)
(* the document itself is one body token. A text that is no JSON document  *)
(* raises json.JSONDecodeError; the interpreter's own limits (recursion    *)
(* depth, integer digits) are not modelled.                                *)
(***************************************************************************)
JsonBodies == {"reply", "num", "list", "partial"}

JsonValue(tok) ==
    CASE tok = "reply"   -> [type |-> "dict", text |-> <<"hi">>,
                             emotion |-> "joy", action |-> "nod"]
      [] tok = "partial" -> [type |-> "dict", text |-> <<"hi">>]
      [] tok = "num"     -> [type |-> "int"]
      [] tok = "list"    -> [type |-> "list"]

JsonLoads(s) ==
    LET t == Strip(s)
    IN  IF Len(t) = 1 /\ t[1] \in JsonBodies
        THEN [ok |-> TRUE, value |-> JsonValue(t[1])]
        ELSE [ok |-> FALSE, value |-> [type |-> "JSONDecodeError"]]

(***************************************************************************)
(* Final response extraction of process_chat.                              *)
(***************************************************************************)
\* raw_text[7:] / raw_text[3:] / raw_text[:-3]
StripFences(raw) ==
    LET a == IF StartsWith(raw, <<"fence", "jsontag">>) THEN SubSeq(raw, 3, Len(raw))
             ELSE IF StartsWith(raw, <<"fence">>) THEN SubSeq(raw, 2, Len(raw))
             ELSE raw
    IN  IF EndsWith(a, <<"fence">>) THEN SubSeq(a, 1, Len(a) - 1) ELSE a

FallbackMutant(text) ==
    [type |-> "dict", text |-> Strip(text), emotion |-> "default", action |-> "none"]

\* except json.JSONDecodeError: the reply carries response.text itself
Fallback(text) ==
    [type |-> "dict", text |-> text, emotion |-> "default", action |-> "none"]

NoReply ==
    [type |-> "dict", text |-> <<"no_reply_text">>,
     emotion |-> "default", action |-> "none"]

ErrorReply ==
    [type |-> "dict", text |-> <<"communication_error">>,
     emotion |-> "default", action |-> "none"]

FinalExtractionMutant(text) ==
    IF text # <<>>
    THEN LET parsed == JsonLoads(Strip(text))
         IN  IF parsed.ok THEN parsed.value ELSE Fallback(text)
    ELSE NoReply

FinalExtraction(text) ==
    IF text # <<>>
    THEN LET raw_text == StripFences(Strip(text))
             parsed   == JsonLoads(Strip(raw_text))
         IN  IF parsed.ok THEN parsed.value ELSE Fallback(text)
    ELSE NoReply

(***************************************************************************)
(* Conversation context: the history conversion of process_chat.           *)
(* A history entry is a record that may lack "role" and "parts"; parts is  *)
(* tagged as a dict ([isdict |-> TRUE, dict |-> d]) or a list of dicts     *)
(* ([isdict |-> FALSE, list |-> l]).                                       *)
(***************************************************************************)
TextPart(t) == [kind |-> "text", text |-> t]

Get(d, k, default) == IF k \in DOMAIN d THEN d[k] ELSE default

EmptyParts == [isdict |-> FALSE, list |-> <<>>]

PartsTruthy(parts) ==
    IF parts.isdict THEN DOMAIN parts.dict # {} ELSE parts.list # <<>>

\* a value that is no dict where the conversion calls .get: a string, a number
NonObject == [nonobject |-> TRUE]

IsObject(x) == "nonobject" \notin DOMAIN x

\* turn.get or parts[0].get raises AttributeError
TurnRaises(turn) ==
    \/ ~IsObject(turn)
    \/ LET parts == Get(turn, "parts", EmptyParts)
       IN  PartsTruthy(parts) /\ ~parts.isdict /\ ~IsObject(parts.list[1])

\* the loop over history raises; it stands before the try of process_chat
HistoryRaises(history) == \E i \in DOMAIN history : TurnRaises(history[i])

TurnTextMutant(turn) ==
    LET parts == Get(turn, "parts", EmptyParts)
    IN  IF ~parts.isdict /\ parts.list # <<>>
        THEN Get(parts.list[1], "text", <<>>)
        ELSE <<>>

TurnText(turn) ==
    LET parts == Get(turn, "parts", EmptyParts)
    IN  IF PartsTruthy(parts)
        THEN IF parts.isdict THEN Get(parts.dict, "text", <<>>)
             ELSE Get(parts.list[1], "text", <<>>)
        ELSE <<>>

ConvertTurn(turn) ==
    [role |-> Get(turn, "role", "user"), parts |-> <<TextPart(TurnText(turn))>>]

ConvertHistory(history, message) ==
    [i \in 1..Len(history) |-> ConvertTurn(history[i])]
        \o <<[role |-> "user", parts |-> <<TextPart(message)>>]>>

(***************************************************************************)
(* State.                                                                  *)
(***************************************************************************)
VARIABLES
    caller,         \* who entered: "none", "direct" (run_test) or "endpoint"
    request,        \* the arguments: [message, history]
    pc,             \* position in process_chat
    contents,       \* the turn list sent to the model
    response,       \* the last model response: [text, calls]
    fcIndex,        \* index of the next function call of the round (1-based)
    toolParts,      \* tool_responses_parts of the round
    reply,          \* the value process_chat returned
    exit,           \* how it ended: "none", "final", "except", "raised"
    failedAt,       \* the call that raised out of the loop, or "none"
    http,           \* what chat_endpoint gave the client
    rounds,         \* tool-call rounds begun
    modelCalls,     \* generate_content calls made
    toolCalls,      \* session.call_tool calls made
    toolFailures,   \* of these, the calls whose try block raised
    firstResponse,  \* the first model response received
    now,            \* the clock, in minutes
    analyses,       \* ANALYSES_DIR: minute key -> the record in that file
    notesExists,    \* whether learning_notes.json exists
    notes,          \* the list in learning_notes.json
    cyc,            \* the running analysis cycle: [pc, anchor, news, ...]
    cycles,         \* cycles started
    faults,         \* failures injected so far
    appended,       \* learning notes appended so far
    proc,           \* lifespan: "starting", "startup" (initial cycle), "armed"
    restarts,       \* process restarts so far
    saves,          \* save_analysis calls that returned
    evalCalls,      \* model calls issued by run_pdca_check
    evalFetches,    \* news fetches made by run_pdca_check
    lastExit,       \* how the last run_analysis_cycle ended
    latest,         \* the last answer of GET /api/finance/latest
    evalTasks,      \* run_pdca_check coroutines sharing the event loop
    bridge          \* a convert_schema call: [pc, schema, out, twice]

chatVars ==
    <<caller, request, pc, contents, response, fcIndex, toolParts, reply, exit,
      failedAt, http, rounds, modelCalls, toolCalls, toolFailures, firstResponse>>

\* what the cycle actions leave alone
sideVars == <<latest, evalTasks, bridge>>

pipeVars ==
    <<now, analyses, notesExists, notes, cyc, cycles, faults, appended, proc,
      restarts, saves, evalCalls, evalFetches, lastExit, sideVars>>

vars == <<chatVars, pipeVars>>

(***************************************************************************)
(* Inputs.                                                                 *)
(***************************************************************************)
\* the two messages of run_test
Messages == {<<"hello">>, <<"latest_ai_news">>}

\* the tools mcp_skills.py declares, in declaration order
ToolOrder == <<"get_current_time", "get_weather", "get_news_or_search", "get_map_location">>

ToolAt(k) == ToolOrder[((k - 1) % Len(ToolOrder)) + 1]

\* the function_calls of a response that asks for n tools
CallsOf(n) == [k \in 1..n |-> ToolAt(k)]

\* final texts a model may produce
FinalTexts ==
    { <<>>,
      <<"ws">>,
      <<"reply">>,
      <<"fence", "jsontag", "ws", "reply", "ws", "fence">>,
      <<"fence", "ws", "reply", "ws", "fence">>,
      <<"reply", "fence">>,
      <<"ws", "junk", "ws">>,
      <<"fence", "jsontag", "ws", "junk", "ws", "fence">>,
      <<"fence", "jsontag">>,
      <<"num">>,
      <<"list">>,
      <<"partial">> }

\* texts that may accompany function calls
ToolTurnTexts == {<<>>, <<"junk">>}

NoResponse == [text |-> <<>>, calls |-> <<>>]

\* what a model of the given kind may answer after r rounds
Responses(kind, r) ==
    IF kind = "stub"
    THEN IF r < StubRounds
         THEN {[text |-> t, calls |-> CallsOf(1)] : t \in ToolTurnTexts}
         ELSE {}
    ELSE {[text |-> t, calls |-> <<>>] : t \in FinalTexts}
         \cup IF r < MaxRounds
              THEN {[text |-> t, calls |-> CallsOf(n)] :
                        t \in ToolTurnTexts, n \in 1..MaxCalls}
              ELSE {}

\* a model call raises, or returns one of the responses
ModelOutcomes(kind, r) ==
    {[fail |-> FALSE, resp |-> x] : x \in Responses(kind, r)}
        \cup IF Responses(kind, r) # {} THEN {[fail |-> TRUE, resp |-> NoResponse]}
             ELSE {}

\* session.call_tool: text content, no content, content without .text, raises
ToolOutcomes == {"text", "empty", "nontext", "raise"}

(***************************************************************************)
(* process_chat.                                                           *)
(***************************************************************************)
NoneReply == [type |-> "none"]

HttpIdle == [status |-> "idle"]

ReplyText(r) ==
    IF r.type = "dict" THEN Get(r, "text", <<>>) ELSE <<"str", r.type>>

HistoryEntry(role, text) ==
    [role |-> role, parts |-> [isdict |-> FALSE, list |-> <<[text |-> text]>>]]

\* chat_endpoint after process_chat returned
HttpOk(r) ==
    [status  |-> "ok",
     reply   |-> r,
     history |-> request.history
                    \o <<HistoryEntry("user", request.message),
                         HistoryEntry("model", ReplyText(r))>>]

\* the statements inside try: ... except Exception
InTryNarrow(site) == site = "setup"

InTry(site) == site \in {"setup", "first_call", "next_call"}

Finish(r, kind, site) ==
    /\ pc' = "returned"
    /\ reply' = r
    /\ exit' = kind
    /\ failedAt' = site
    /\ http' = IF caller = "endpoint"
               THEN IF kind = "raised" THEN [status |-> "raised"] ELSE HttpOk(r)
               ELSE http

Raise(site) ==
    IF InTry(site)
    THEN Finish(ErrorReply, "except", site)
    ELSE Finish(reply, "raised", site)

HasFunctionCallsMutant(resp) == resp.calls # <<>> /\ resp.text = <<>>

\* while response.function_calls
HasFunctionCalls(resp) == resp.calls # <<>>

FunctionCallPart(name) == [kind |-> "function_call", name |-> name]

\* response.candidates[0].content
CandidateContent(resp) ==
    [role  |-> "model",
     parts |-> (IF resp.text # <<>> THEN <<TextPart(resp.text)>> ELSE <<>>)
                  \o [k \in 1..Len(resp.calls) |-> FunctionCallPart(resp.calls[k])]]

AppendCandidate(cont, resp) ==
    IF CandidateContent(resp).parts # <<>>
    THEN Append(cont, CandidateContent(resp))
    ELSE cont

FunctionResponsePart(name, key, value) ==
    [kind |-> "function_response", name |-> name, key |-> key, value |-> value]

\* the body of the for loop: one part per function call
ToolResultPart(name, outcome) ==
    CASE outcome = "text"    -> FunctionResponsePart(name, "result", "tool_text")
      [] outcome = "empty"   -> FunctionResponsePart(name, "result", "Success")
      [] outcome = "nontext" -> FunctionResponsePart(name, "error", "AttributeError")
      [] outcome = "raise"   -> FunctionResponsePart(name, "error", "ToolError")

CollectPartMutant(parts, name, outcome) ==
    IF outcome = "nontext" THEN parts ELSE Append(parts, ToolResultPart(name, outcome))

CollectPart(parts, name, outcome) == Append(parts, ToolResultPart(name, outcome))

AfterCallMutant(i, n, outcome) ==
    IF outcome \in {"nontext", "raise"} THEN n + 1 ELSE i + 1

\* for fc in response.function_calls: the next call follows whatever this one did
AfterCall(i, n, outcome) == i + 1

AppendToolTurnMutant(cont, parts) ==
    Append(SubSeq(cont, 1, Len(cont) - 1), [role |-> "tool", parts |-> parts])

\* contents.append(types.Content(role="tool", parts=tool_responses_parts))
AppendToolTurn(cont, parts) == Append(cont, [role |-> "tool", parts |-> parts])

\* the code that follows a model response
Receive(resp, cont) ==
    /\ response' = resp
    /\ firstResponse' = IF modelCalls = 0 THEN resp ELSE firstResponse
    /\ IF HasFunctionCalls(resp)
       THEN /\ contents' = AppendCandidate(cont, resp)
            /\ toolParts' = <<>>
            /\ fcIndex' = 1
            /\ rounds' = rounds + 1
            /\ pc' = "tools"
            /\ UNCHANGED <<reply, exit, failedAt, http>>
       ELSE /\ contents' = cont
            /\ Finish(FinalExtraction(resp.text), "final", "none")
            /\ UNCHANGED <<toolParts, fcIndex, rounds>>

Enter(message, history) ==
    /\ contents' = ConvertHistory(history, message)
    /\ pc' = "setup"

\* run_test: process_chat(message, [])
ProcessChatCall ==
    \E m \in Messages :
        /\ pc = "idle" /\ caller = "none"
        /\ caller' = "direct"
        /\ request' = [message |-> m, history |-> <<>>]
        /\ Enter(m, <<>>)
        /\ UNCHANGED <<response, fcIndex, toolParts, reply, exit, failedAt, http,
                       rounds, modelCalls, toolCalls, toolFailures, firstResponse>>
        /\ UNCHANGED pipeVars

\* stdio_client, ClientSession, initialize, list_tools, the tool declarations
SessionSetup ==
    \E ok \in BOOLEAN :
        /\ pc = "setup"
        /\ IF ok
           THEN pc' = "model" /\ UNCHANGED <<reply, exit, failedAt, http>>
           ELSE Raise("setup")
        /\ UNCHANGED <<caller, request, contents, response, fcIndex, toolParts,
                       rounds, modelCalls, toolCalls, toolFailures, firstResponse>>
        /\ UNCHANGED pipeVars

\* 3. First Call to Gemini
FirstCall(kind) ==
    \E o \in ModelOutcomes(kind, rounds) :
        /\ pc = "model"
        /\ modelCalls' = modelCalls + 1
        /\ IF o.fail
           THEN /\ Raise("first_call")
                /\ UNCHANGED <<contents, response, fcIndex, toolParts, rounds,
                               firstResponse>>
           ELSE Receive(o.resp, contents)
        /\ UNCHANGED <<caller, request, toolCalls, toolFailures>>
        /\ UNCHANGED pipeVars

\* one iteration of: for fc in response.function_calls
CallTool(outcomes) ==
    \E o \in outcomes :
        /\ pc = "tools"
        /\ fcIndex <= Len(response.calls)
        /\ toolCalls' = toolCalls + 1
        /\ toolFailures' = toolFailures + (IF o \in {"nontext", "raise"} THEN 1 ELSE 0)
        /\ toolParts' = CollectPart(toolParts, response.calls[fcIndex], o)
        /\ fcIndex' = AfterCall(fcIndex, Len(response.calls), o)
        /\ UNCHANGED <<caller, request, pc, contents, response, reply, exit,
                       failedAt, http, rounds, modelCalls, firstResponse>>
        /\ UNCHANGED pipeVars

\* Append tool results to history; 5. Call Gemini again with the tool output
SendToolResults(kind) ==
    \E o \in ModelOutcomes(kind, rounds) :
        /\ pc = "tools"
        /\ fcIndex > Len(response.calls)
        /\ modelCalls' = modelCalls + 1
        /\ IF o.fail
           THEN /\ contents' = AppendToolTurn(contents, toolParts)
                /\ Raise("next_call")
                /\ UNCHANGED <<response, fcIndex, toolParts, rounds, firstResponse>>
           ELSE Receive(o.resp, AppendToolTurn(contents, toolParts))
        /\ UNCHANGED <<caller, request, toolCalls, toolFailures>>
        /\ UNCHANGED pipeVars

(***************************************************************************)
(* chat_endpoint.                                                          *)
(***************************************************************************)
\* bound on the length of the history a client sends
MaxHist == 2

HistoryEntries ==
    { HistoryEntry("user", <<"hello">>),
      [role |-> "model", parts |-> [isdict |-> TRUE, dict |-> [text |-> <<"hi">>]]],
      [parts |-> [isdict |-> FALSE, list |-> <<[text |-> <<"hello">>]>>]],
      [role |-> "user"],
      [role |-> "user", parts |-> EmptyParts] }

RECURSIVE SeqsUpTo(_, _)
SeqsUpTo(S, n) ==
    IF n = 0 THEN {<<>>}
    ELSE LET shorter == SeqsUpTo(S, n - 1)
         IN  shorter \cup {Append(h, e) : h \in shorter, e \in S}

Requests == {[message |-> m, history |-> h] : m \in Messages, h \in SeqsUpTo(HistoryEntries, MaxHist)}

\* process_chat(request.message, request.history, request.image_base64)
ChatEndpoint ==
    \E req \in Requests :
        /\ pc = "idle" /\ caller = "none"
        /\ caller' = "endpoint"
        /\ request' = req
        /\ IF ChatEndpointArgs = ProcessChatParams
           THEN Enter(req.message, req.history) /\ UNCHANGED http
           ELSE http' = [status |-> "raised"] /\ UNCHANGED <<pc, contents>>
        /\ UNCHANGED <<response, fcIndex, toolParts, reply, exit, failedAt,
                       rounds, modelCalls, toolCalls, toolFailures, firstResponse>>
        /\ UNCHANGED pipeVars

(***************************************************************************)
(* process_chat called with a history.                                     *)
(***************************************************************************)
\* the forms of a history entry: role and content present or missing, the
\* content one object or a list of objects, with and without text, empty
HistoryForms ==
    HistoryEntries \cup
    { [role |-> "model", parts |-> [isdict |-> TRUE, dict |-> [other |-> <<"x">>]]],
      [parts |-> [isdict |-> TRUE, dict |-> [text |-> <<"hi">>]]],
      [role |-> "model", parts |-> [isdict |-> FALSE,
                                    list |-> <<[other |-> <<"x">>], [text |-> <<"hi">>]>>]],
      [role |-> "model", parts |-> [isdict |-> FALSE,
                                    list |-> <<[text |-> <<"hi">>], [text |-> <<"hello">>]>>]] }

\* entries on which .get does not exist: the entry itself, or the first
\* element of its content, is a string
BrokenEntries ==
    { NonObject,
      [role |-> "user", parts |-> [isdict |-> FALSE, list |-> <<NonObject>>]] }

HistoryRequests ==
    {[message |-> m, history |-> h] :
        m \in Messages, h \in SeqsUpTo(HistoryForms \cup BrokenEntries, MaxHist)}

\* process_chat(message, history) called with a history
ProcessChatHistory ==
    \E req \in HistoryRequests :
        /\ pc = "idle" /\ caller = "none"
        /\ caller' = "direct"
        /\ request' = req
        /\ IF HistoryRaises(req.history)
           THEN Raise("history") /\ UNCHANGED contents
           ELSE Enter(req.message, req.history)
                    /\ UNCHANGED <<reply, exit, failedAt, http>>
        /\ UNCHANGED <<response, fcIndex, toolParts, rounds, modelCalls,
                       toolCalls, toolFailures, firstResponse>>
        /\ UNCHANGED pipeVars

(***************************************************************************)
(* The analysis pipeline: run_analysis_cycle, run_pdca_check,              *)
(* fetch_financial_news, analyze_news, save_analysis, and the lifespan     *)
(* that starts it.                                                         *)
(***************************************************************************)
\* cycles started in one behaviour of the learning-notes specification
MaxCycles == 27
\* cycles started in one behaviour of the pipeline specification
PipelineCycles == 7
\* failing steps (a fetch with failing queries, a model call, a parse, a
\* write) in one behaviour of the pipeline specification
MaxFaults == 1
\* process restarts in one behaviour of the pipeline specification
MaxRestarts == 1
\* cycles started and process restarts in one behaviour of the query
\* specification
QueryCycles == 3
QueryRestarts == 1

\* the steps that may fail
AllFaults == {"query", "pdca", "analysis", "save"}

\* cycles of the runs whose model answers with any text
TextCycles == 3

TextFaults == {"pdca", "analysis", "texts"}

\* the long runs: the model of the self-evaluation answers with any text, or
\* fails
NotesFaults == {"pdca", "texts"}

\* if len(notes) > 20: notes = notes[-20:]
NotesCap == 20
\* get_analysis_history(5)
HistoryWindow == 5
\* if len(history) < 2: return
MinHistory == 2

Min(a, b) == IF a < b THEN a ELSE b

\* the queries of fetch_financial_news, in order
Queries == <<"nikkei", "sp500", "usdjpy", "policy">>

RECURSIVE GatherMutant(_, _)
GatherMutant(okq, q) ==
    IF q > Len(Queries) \/ q \notin okq THEN <<>>
    ELSE <<Queries[q]>> \o GatherMutant(okq, q + 1)

\* for query in queries: try: all_results.extend(results) / except: print
RECURSIVE Gather(_, _)
Gather(okq, q) ==
    IF q > Len(Queries) THEN <<>>
    ELSE (IF q \in okq THEN <<Queries[q]>> ELSE <<>>) \o Gather(okq, q + 1)

\* all_results, given the set of queries that did not raise
FetchFinancialNews(okq) == Gather(okq, 1)

\* the sets of succeeding queries: any, while a failing step is left
FetchOutcomes(F, B, used) ==
    IF "query" \in F /\ used < B THEN SUBSET (1..Len(Queries)) ELSE {1..Len(Queries)}

Failed(okq) == IF okq = 1..Len(Queries) THEN 0 ELSE 1

\* None
None == [none |-> TRUE]

\* a file that open(filepath, "w") has created or truncated and json.dump has
\* not completed: json.load raises on it
Partial == [partial |-> TRUE]

\* json.load(f) returns
Readable(file) == "partial" \notin DOMAIN file

\* datetime.now().isoformat(): the minute, and below the minute an instant
\* that differs from cycle to cycle
Stamp(minute, seq) == [minute |-> minute, seq |-> seq]

NoStamp == Stamp(-1, -1)

\* the first n of sorted(S, reverse=True)
RECURSIVE TopDesc(_, _)
TopDesc(S, n) ==
    IF n = 0 \/ S = {} THEN <<>>
    ELSE LET m == CHOOSE x \in S : \A y \in S : y <= x
         IN  <<m>> \o TopDesc(S \ {m}, n - 1)

\* sorted(ANALYSES_DIR.glob("*.json"), reverse=True)[:n], each file loaded,
\* the files that do not load skipped
GetAnalysisHistory(store, n) ==
    LET top == TopDesc(DOMAIN store, n)
    IN  SelectSeq([i \in 1..Len(top) |-> store[top[i]]], Readable)

GetLatestAnalysisMutant(store) ==
    LET files == TopDesc(DOMAIN store, 1)
    IN  IF files = <<>> THEN [raised |-> TRUE]
        ELSE IF Readable(store[files[1]]) THEN store[files[1]] ELSE None

\* get_latest_analysis: None without files, and None when files[0] does not
\* load
GetLatestAnalysis(store) ==
    LET files == TopDesc(DOMAIN store, 1)
    IN  IF files = <<>> THEN None
        ELSE IF Readable(store[files[1]]) THEN store[files[1]] ELSE None

\* finance_latest: an exception of get_latest_analysis is not handled
FinanceLatestResponse(analysis) ==
    IF "raised" \in DOMAIN analysis THEN [status |-> "error", analysis |-> None]
    ELSE IF analysis # None THEN [status |-> "ok", analysis |-> analysis]
    ELSE [status |-> "no_data", analysis |-> None]

\* str.strip of a text with newlines: "nl" is a newline, "ws" other whitespace
RECURSIVE StripLines(_)
StripLines(s) ==
    IF s # <<>> /\ Head(s) \in {"ws", "nl"} THEN StripLines(Tail(s))
    ELSE IF s # <<>> /\ s[Len(s)] \in {"ws", "nl"}
    THEN StripLines(SubSeq(s, 1, Len(s) - 1))
    ELSE s

\* the positions of token tok in s
Positions(s, tok) == {i \in DOMAIN s : s[i] = tok}

FirstOf(S) == CHOOSE i \in S : \A j \in S : i <= j

LastOf(S) == CHOOSE i \in S : \A j \in S : j <= i

\* result_text.split("\n", 1)[1]: the text behind the first newline; without
\* a newline the list has one element and [1] raises IndexError
AfterFirstLine(s) ==
    IF Positions(s, "nl") = {} THEN [ok |-> FALSE, text |-> <<>>]
    ELSE [ok |-> TRUE, text |-> SubSeq(s, FirstOf(Positions(s, "nl")) + 1, Len(s))]

\* result_text.rsplit("```", 1)[0].strip()
BeforeLastFence(s) ==
    StripLines(IF Positions(s, "fence") = {} THEN s
               ELSE SubSeq(s, 1, LastOf(Positions(s, "fence")) - 1))

\* json.loads on a text of the pipeline: one document, "object", "list" or
\* "num", with whitespace around it
LoadsDocument(s) ==
    LET t == StripLines(s)
    IN  IF Len(t) = 1 /\ t[1] \in {"object", "list", "num"}
        THEN [error |-> "none", kind |-> t[1]]
        ELSE [error |-> "JSONDecodeError", kind |-> "none"]

ParseModelTextMutant(text) == LoadsDocument(StripLines(text))

\* response.text.strip(), the clean-up of a markdown code block, json.loads
ParseModelText(text) ==
    LET result_text == StripLines(text)
    IN  IF result_text # <<>> /\ Head(result_text) = "fence"
        THEN IF AfterFirstLine(result_text).ok
             THEN LoadsDocument(BeforeLastFence(AfterFirstLine(result_text).text))
             ELSE [error |-> "IndexError", kind |-> "none"]
        ELSE LoadsDocument(result_text)

\* what generate_content gives: it raises, or response.text
ApiFailure == [api |-> FALSE, text |-> <<>>]

TextResult(text) == [api |-> TRUE, text |-> text]

\* a JSON object, an API error, text that is no JSON
BasicResults == {TextResult(<<"object">>), ApiFailure, TextResult(<<"junk">>)}

\* texts with and without code fences, newlines, other JSON values, and text
\* around the document
ModelTexts ==
    { <<"object">>,
      <<"nl", "object", "ws">>,
      <<"fence", "jsontag", "nl", "object", "nl", "fence">>,
      <<"fence", "nl", "object", "fence">>,
      <<"fence", "jsontag", "nl", "object">>,
      <<"fence", "jsontag", "nl", "object", "nl", "fence", "nl", "junk">>,
      <<>>,
      <<"junk">>,
      <<"object", "junk">>,
      <<"object", "nl", "fence">>,
      <<"fence", "jsontag", "ws", "object", "fence">>,
      <<"fence", "object", "fence">>,
      <<"fence", "jsontag", "nl", "junk", "nl", "fence">>,
      <<"list">>,
      <<"num">>,
      <<"fence", "jsontag", "nl", "list", "nl", "fence">> }

\* the exception that takes analyze_news to its except, "none" without one;
\* analysis["timestamp"] = ... raises TypeError on a value that is no dict
AnalysisError(r) ==
    IF ~r.api THEN "APIError"
    ELSE IF ParseModelText(r.text).error # "none" THEN ParseModelText(r.text).error
    ELSE IF ParseModelText(r.text).kind # "object" THEN "TypeError"
    ELSE "none"

PdcaErrorMutant(r) == IF ~r.api THEN "APIError" ELSE "none"

\* the exception that takes run_pdca_check to its except, "none" without one;
\* notes.append(pdca_note) takes any JSON value
PdcaError(r) ==
    IF ~r.api THEN "APIError" ELSE ParseModelText(r.text).error

SiteError(site, r) == IF site = "pdca" THEN PdcaError(r) ELSE AnalysisError(r)

\* the results of a model call: any result of the pool that goes through
\* without an exception, and the others while a failing step is left; the
\* pool is the texts above when F holds "texts"
ModelResults(site, F, B, used) ==
    {r \in (IF "texts" \in F THEN {TextResult(t) : t \in ModelTexts} \cup {ApiFailure}
                            ELSE BasicResults) :
        SiteError(site, r) = "none" \/ (site \in F /\ used < B)}

\* open(filepath, "w") of save_analysis: the file is opened, or OSError
OpenResults(F, B, used) ==
    {"ok"} \cup IF "save" \in F /\ used < B THEN {"raise"} ELSE {}

Cost(site, r) == IF SiteError(site, r) = "none" THEN 0 ELSE 1

OpenCost(w) == IF w = "ok" THEN 0 ELSE 1

\* analyze_news: the parsed analysis, or the fallback record of except
AnalyzeNews(r, news, ts) ==
    IF AnalysisError(r) = "none"
    THEN [timestamp |-> ts, news_count |-> Len(news),
          market_sentiment |-> "bullish", predictions |-> <<"prediction">>]
    ELSE [timestamp |-> ts, market_sentiment |-> "neutral",
          predictions |-> <<>>, error |-> AnalysisError(r)]

\* save_analysis: open(filepath, "w") at the key of the current minute creates
\* the file or truncates the one that is there
OpenForWrite(store, key) ==
    [k \in DOMAIN store \cup {key} |-> IF k = key THEN Partial ELSE store[k]]

\* save_analysis: the file at the key of the current minute with the whole of
\* json.dump written
SaveAnalysis(store, key, analysis) ==
    [k \in DOMAIN store \cup {key} |-> IF k = key THEN analysis ELSE store[k]]

KeepLastMutant(l) == IF Len(l) > NotesCap THEN SubSeq(l, 1, NotesCap) ELSE l

\* Keep only last 20 notes
KeepLast(l) == IF Len(l) > NotesCap THEN SubSeq(l, Len(l) - NotesCap + 1, Len(l)) ELSE l

\* pdca_note: the k-th note the model wrote
PdcaNote(k) == [n |-> k, lessons_learned |-> <<"lesson">>]

\* the list read back from learning_notes.json, [] when the file is absent
ReadNotes == IF notesExists THEN notes ELSE <<>>

AppendNoteMutant(l, note) == KeepLast(<<note>>)

\* Append to learning notes
AppendNote(l, note) == KeepLast(Append(l, note))

EvaluateFirstEarly(history) == Len(history) >= MinHistory - 1

EvaluateFirstNever(history) == FALSE

\* run_pdca_check goes on to its model call: if len(history) < 2: return
EvaluateFirst(history) == Len(history) >= MinHistory

PastAnalysisMutant(history) == history[1]

\* past_analysis = history[-1]
PastAnalysis(history) == history[Len(history)]

\* no cycle running; okq, pdcaOut and modelOut record what the environment
\* gave the cycle: the queries of its fetch that returned, the result of the
\* model call of its evaluation and of its analysis
CycIdle ==
    [pc |-> "idle", anchor |-> NoStamp, news |-> <<>>, evaluated |-> FALSE,
     analysis |-> None, okq |-> {}, pdcaOut |-> ApiFailure, modelOut |-> ApiFailure]

AfterCycleMutant(p, how) == IF p = "startup" /\ how = "returned" THEN "armed" ELSE p

\* lifespan: try: await run_analysis_cycle() / except Exception, then
\* scheduler.add_job and scheduler.start, whichever way the cycle ended
AfterCycle(p, how) == IF p = "startup" THEN "armed" ELSE p

\* run_analysis_cycle returns or raises; the lifespan, when it awaited the
\* cycle, goes on
EndCycle(how) ==
    /\ cyc' = CycIdle
    /\ lastExit' = how
    /\ proc' = AfterCycle(proc, how)

\* run_analysis_cycle at time t up to its first await: run_pdca_check up to
\* its model call, or (with fewer than 2 records) on to the model call of
\* analyze_news
BeginCycle(t, okq) ==
    /\ cyc.pc = "idle"
    /\ cycles' = cycles + 1
    /\ now' = t
    /\ LET history == GetAnalysisHistory(analyses, HistoryWindow)
       IN  IF EvaluateFirst(history)
           THEN /\ cyc' = [CycIdle EXCEPT !.pc = "pdca_await",
                                          !.anchor = PastAnalysis(history).timestamp]
                /\ evalFetches' = evalFetches + 1
                /\ evalCalls' = evalCalls + 1
           ELSE /\ cyc' = [CycIdle EXCEPT !.pc = "analyze_await",
                                          !.news = FetchFinancialNews(okq),
                                          !.okq = okq]
                /\ UNCHANGED <<evalFetches, evalCalls>>
    /\ UNCHANGED <<analyses, notesExists, notes, appended, restarts, saves, lastExit>>
    /\ UNCHANGED sideVars
    /\ UNCHANGED chatVars

\* lifespan: the initial cycle, awaited before the scheduler exists; the
\* process may have been started in the minute of the last save
Startup(cap, F, B) ==
    \E okq \in FetchOutcomes(F, B, faults) :
        \E t \in {now, now + 1} :
            /\ proc = "starting"
            /\ cycles < cap
            /\ faults' = faults + Failed(okq)
            /\ proc' = "startup"
            /\ BeginCycle(t, okq)

\* the interval job: a run of run_analysis_cycle 10 minutes after the
\* scheduler started or after the previous run was due
CycleStart(cap, F, B) ==
    \E okq \in FetchOutcomes(F, B, faults) :
        /\ proc = "armed"
        /\ cycles < cap
        /\ faults' = faults + Failed(okq)
        /\ proc' = proc
        /\ BeginCycle(now + 1, okq)

\* run_pdca_check from its model call on, then the fetch of the cycle and
\* analyze_news up to its model call
PdcaReturn(F, B) ==
    \E o \in ModelResults("pdca", F, B, faults) :
        \E okq \in FetchOutcomes(F, B, faults + Cost("pdca", o)) :
            /\ cyc.pc = "pdca_await"
            /\ faults' = faults + Cost("pdca", o) + Failed(okq)
            /\ IF PdcaError(o) = "none"
               THEN /\ notes' = AppendNote(ReadNotes, PdcaNote(appended + 1))
                    /\ notesExists' = TRUE
                    /\ appended' = appended + 1
               ELSE UNCHANGED <<notes, notesExists, appended>>
            /\ cyc' = [cyc EXCEPT !.pc = "analyze_await",
                                  !.news = FetchFinancialNews(okq),
                                  !.okq = okq,
                                  !.pdcaOut = o,
                                  !.evaluated = TRUE]
            /\ UNCHANGED <<now, analyses, cycles, proc, restarts, saves,
                           evalCalls, evalFetches, lastExit>>
            /\ UNCHANGED sideVars
            /\ UNCHANGED chatVars

\* analyze_news from its model call on, then save_analysis up to the opening
\* of the file, which creates or truncates it; OSError leaves the cycle
AnalyzeReturn(F, B) ==
    \E o \in ModelResults("analysis", F, B, faults) :
        \E w \in OpenResults(F, B, faults + Cost("analysis", o)) :
            /\ cyc.pc = "analyze_await"
            /\ faults' = faults + Cost("analysis", o) + OpenCost(w)
            /\ IF w = "ok"
               THEN /\ analyses' = OpenForWrite(analyses, now)
                    /\ cyc' = [cyc EXCEPT !.pc = "saving",
                                          !.modelOut = o,
                                          !.analysis = AnalyzeNews(o, cyc.news,
                                                                   Stamp(now, cycles))]
                    /\ UNCHANGED <<lastExit, proc>>
               ELSE /\ EndCycle("raised")
                    /\ UNCHANGED analyses
            /\ UNCHANGED <<now, notesExists, notes, cycles, appended, restarts,
                           saves, evalCalls, evalFetches>>
            /\ UNCHANGED sideVars
            /\ UNCHANGED chatVars

\* save_analysis from json.dump on, and the return of run_analysis_cycle
SaveDump ==
    /\ cyc.pc = "saving"
    /\ analyses' = SaveAnalysis(analyses, now, cyc.analysis)
    /\ saves' = saves + 1
    /\ EndCycle("returned")
    /\ UNCHANGED <<now, notesExists, notes, cycles, faults, appended, restarts,
                   evalCalls, evalFetches>>
    /\ UNCHANGED sideVars
    /\ UNCHANGED chatVars

\* the process is stopped between two cycles and started again
Restart(maxRestarts) ==
    /\ proc = "armed"
    /\ cyc.pc = "idle"
    /\ restarts < maxRestarts
    /\ restarts' = restarts + 1
    /\ proc' = "starting"
    /\ UNCHANGED <<now, analyses, notesExists, notes, cyc, cycles, faults,
                   appended, saves, evalCalls, evalFetches, lastExit>>
    /\ UNCHANGED sideVars
    /\ UNCHANGED chatVars

(***************************************************************************)
(* finance_latest: GET /api/finance/latest, served on a worker thread.     *)
(***************************************************************************)
LatestIdle ==
    [asked |-> FALSE, status |-> "none", analysis |-> None, store |-> <<>>,
     persisted |-> 0]

\* the whole handler; store and persisted record what was on disk, and how
\* many save_analysis calls had returned, when it ran
FinanceLatest ==
    /\ latest' = [asked |-> TRUE,
                  status |-> FinanceLatestResponse(GetLatestAnalysis(analyses)).status,
                  analysis |-> FinanceLatestResponse(GetLatestAnalysis(analyses)).analysis,
                  store |-> analyses,
                  persisted |-> saves]
    /\ UNCHANGED <<now, analyses, notesExists, notes, cyc, cycles, faults,
                   appended, proc, restarts, saves, evalCalls, evalFetches,
                   lastExit, evalTasks, bridge>>
    /\ UNCHANGED chatVars

(***************************************************************************)
(* run_pdca_check as coroutines of one event loop: a coroutine runs from   *)
(* one await to the next without interruption.                             *)
(***************************************************************************)
\* coroutines of run_pdca_check on the event loop
EvalTasks == 2

TaskIdle == [pc |-> "idle", call |-> 0, note |-> 0]

\* run_pdca_check up to its model call
EvaluateStart(t) ==
    /\ evalTasks[t].pc = "idle"
    /\ LET history == GetAnalysisHistory(analyses, HistoryWindow)
       IN  IF EvaluateFirst(history)
           THEN /\ evalTasks' = [evalTasks EXCEPT ![t] = [pc |-> "await",
                                                          call |-> evalCalls + 1,
                                                          note |-> 0]]
                /\ evalFetches' = evalFetches + 1
                /\ evalCalls' = evalCalls + 1
           ELSE /\ evalTasks' = [evalTasks EXCEPT ![t].pc = "done"]
                /\ UNCHANGED <<evalFetches, evalCalls>>
    /\ UNCHANGED <<now, analyses, notesExists, notes, cyc, cycles, faults,
                   appended, proc, restarts, saves, lastExit, latest, bridge>>
    /\ UNCHANGED chatVars

\* run_pdca_check from its model call on
EvaluateReturn(t) ==
    \E o \in BasicResults :
        /\ evalTasks[t].pc = "await"
        /\ IF PdcaError(o) = "none"
           THEN /\ notes' = AppendNote(ReadNotes, PdcaNote(appended + 1))
                /\ notesExists' = TRUE
                /\ appended' = appended + 1
                /\ evalTasks' = [evalTasks EXCEPT ![t].pc = "done",
                                                  ![t].note = appended + 1]
           ELSE /\ evalTasks' = [evalTasks EXCEPT ![t].pc = "done"]
                /\ UNCHANGED <<notes, notesExists, appended>>
        /\ UNCHANGED <<now, analyses, cyc, cycles, faults, proc, restarts, saves,
                       evalCalls, evalFetches, lastExit, latest, bridge>>
        /\ UNCHANGED chatVars

(***************************************************************************)
(* convert_schema.  A JSON value is a string, a dict or a list.            *)
(***************************************************************************)
Str(s) == [t |-> "str", s |-> s]

Dict(d) == [t |-> "dict", d |-> d]

List(l) == [t |-> "list", l |-> l]

\* str.upper on the strings of the schemas below
Upper(s) ==
    CASE s = "string" -> "STRING"
      [] s = "Object" -> "OBJECT"
      [] OTHER -> s

\* a key that the dict does not hold
Absent == [t |-> "absent"]

\* the dict holding the keys of choice that are not absent
Build(choice) ==
    Dict([k \in {j \in DOMAIN choice : choice[j] # Absent} |-> choice[k]])

\* string values: lower case, mixed case
Leaves == {Str("string"), Str("Object")}

\* {}, {"type": ...}
TypeOnly == {Build(c) : c \in [type : Leaves \cup {Absent}]}

\* the schema of one parameter, with the schema of its items
Params == {Build(c) : c \in [type : Leaves \cup {Absent}, items : TypeOnly \cup {Absent}]}

\* list values: required names, anyOf alternatives, a sequence for properties
Lists == {List(<<>>)} \cup {List(<<v>>) : v \in Leaves \cup TypeOnly}

\* the value of properties: a dict keyed by parameter name, or a list
Properties == {Dict(<<>>)} \cup {Dict([location |-> p]) : p \in Params} \cup Lists

\* t.inputSchema
Schemas ==
    {Build(c) : c \in [type : Leaves \cup {Absent},
                       properties : Properties \cup {Absent},
                       anyOf : Lists \cup {Absent}]}

ConvertSchemaMutant(schema) ==
    Dict([k \in DOMAIN schema.d |->
            IF k = "type" /\ schema.d[k].t = "str"
            THEN Str(Upper(schema.d[k].s))
            ELSE schema.d[k]])

RECURSIVE ConvertSchema(_)
\* convert_schema
ConvertSchema(schema) ==
    Dict([k \in DOMAIN schema.d |->
            IF k = "type" /\ schema.d[k].t = "str"
            THEN Str(Upper(schema.d[k].s))
            ELSE IF schema.d[k].t = "dict"
            THEN ConvertSchema(schema.d[k])
            ELSE schema.d[k]])

BridgeIdle ==
    [pc |-> "idle", schema |-> Dict(<<>>), out |-> Dict(<<>>), twice |-> Dict(<<>>)]

\* gemini_schema = convert_schema(t.inputSchema)
ConvertTool ==
    /\ bridge.pc = "input"
    /\ bridge' = [bridge EXCEPT !.pc = "converted",
                                !.out = ConvertSchema(bridge.schema)]
    /\ UNCHANGED <<now, analyses, notesExists, notes, cyc, cycles, faults,
                   appended, proc, restarts, saves, evalCalls, evalFetches,
                   lastExit, latest, evalTasks>>
    /\ UNCHANGED chatVars

\* convert_schema applied to its own output
ConvertAgain ==
    /\ bridge.pc = "converted"
    /\ bridge' = [bridge EXCEPT !.pc = "twice",
                                !.twice = ConvertSchema(bridge.out)]
    /\ UNCHANGED <<now, analyses, notesExists, notes, cyc, cycles, faults,
                   appended, proc, restarts, saves, evalCalls, evalFetches,
                   lastExit, latest, evalTasks>>
    /\ UNCHANGED chatVars

(***************************************************************************)
(* Specifications.                                                         *)
(***************************************************************************)
InitChat ==
    /\ caller = "none"
    /\ request = [message |-> <<>>, history |-> <<>>]
    /\ pc = "idle"
    /\ contents = <<>>
    /\ response = NoResponse
    /\ fcIndex = 1
    /\ toolParts = <<>>
    /\ reply = NoneReply
    /\ exit = "none"
    /\ failedAt = "none"
    /\ http = HttpIdle
    /\ rounds = 0
    /\ modelCalls = 0
    /\ toolCalls = 0
    /\ toolFailures = 0
    /\ firstResponse = NoResponse

\* a fresh installation: no analysis files, no learning notes, the process
\* about to enter its lifespan
InitPipeline ==
    /\ now = 0
    /\ analyses = <<>>
    /\ notesExists = FALSE
    /\ notes = <<>>
    /\ cyc = CycIdle
    /\ cycles = 0
    /\ faults = 0
    /\ appended = 0
    /\ proc = "starting"
    /\ restarts = 0
    /\ saves = 0
    /\ evalCalls = 0
    /\ evalFetches = 0
    /\ lastExit = "none"

InitSide ==
    /\ latest = LatestIdle
    /\ evalTasks = [t \in 1..EvalTasks |-> TaskIdle]

Init ==
    /\ InitChat
    /\ InitPipeline
    /\ InitSide
    /\ bridge = BridgeIdle

Next ==
    \/ ProcessChatCall
    \/ ChatEndpoint
    \/ SessionSetup
    \/ FirstCall("free")
    \/ CallTool(ToolOutcomes)
    \/ SendToolResults("free")

Spec == Init /\ [][Next]_vars

\* the chat turn against a model that requests a tool in every response
NextStub ==
    \/ ProcessChatCall
    \/ SessionSetup
    \/ FirstCall("stub")
    \/ CallTool({"text"})
    \/ SendToolResults("stub")

SpecStub == Init /\ [][NextStub]_vars

\* the history conversion and the session setup behind it
NextHistory ==
    \/ ProcessChatHistory
    \/ SessionSetup

SpecHistory == Init /\ [][NextHistory]_vars

\* the analysis pipeline
NextPipeline ==
    \/ Startup(PipelineCycles, AllFaults, MaxFaults)
    \/ CycleStart(PipelineCycles, AllFaults, MaxFaults)
    \/ PdcaReturn(AllFaults, MaxFaults)
    \/ AnalyzeReturn(AllFaults, MaxFaults)
    \/ SaveDump
    \/ Restart(MaxRestarts)

SpecPipeline == Init /\ [][NextPipeline]_vars

\* long runs of the pipeline in which any self-evaluation may fail
NextNotes ==
    \/ Startup(MaxCycles, NotesFaults, MaxCycles)
    \/ CycleStart(MaxCycles, NotesFaults, MaxCycles)
    \/ PdcaReturn(NotesFaults, MaxCycles)
    \/ AnalyzeReturn(NotesFaults, MaxCycles)
    \/ SaveDump

SpecNotes == Init /\ [][NextNotes]_vars

\* the latest query on a worker thread, beside a pipeline without failures
NextQuery ==
    \/ Startup(QueryCycles, {}, 0)
    \/ CycleStart(QueryCycles, {}, 0)
    \/ PdcaReturn({}, 0)
    \/ AnalyzeReturn({}, 0)
    \/ SaveDump
    \/ Restart(QueryRestarts)
    \/ FinanceLatest

SpecQuery == Init /\ [][NextQuery]_vars

\* the pipeline with a model that answers any of the texts, or fails, at
\* both of its calls
NextTexts ==
    \/ Startup(TextCycles, TextFaults, 2 * TextCycles)
    \/ CycleStart(TextCycles, TextFaults, 2 * TextCycles)
    \/ PdcaReturn(TextFaults, 2 * TextCycles)
    \/ AnalyzeReturn(TextFaults, 2 * TextCycles)
    \/ SaveDump

SpecTexts == Init /\ [][NextTexts]_vars

\* the disk after k + 2 cycles without a failure: k + 2 records and the k
\* notes of the cycles that evaluated
InitRace ==
    /\ InitChat
    /\ InitSide
    /\ bridge = BridgeIdle
    /\ \E k \in 0..(MaxCycles - MinHistory) :
          /\ now = k + MinHistory
          /\ cycles = k + MinHistory
          /\ saves = k + MinHistory
          /\ analyses = [m \in 1..(k + MinHistory) |->
                            AnalyzeNews(TextResult(<<"object">>),
                                        FetchFinancialNews(1..Len(Queries)),
                                        Stamp(m, m))]
          /\ notesExists = (k > 0)
          /\ notes = KeepLast([i \in 1..k |-> PdcaNote(i)])
          /\ appended = k
          /\ evalCalls = k
          /\ evalFetches = k
    /\ cyc = CycIdle
    /\ faults = 0
    /\ proc = "armed"
    /\ restarts = 0
    /\ lastExit = "returned"

\* run_pdca_check coroutines interleaved at their awaits
NextRace == \E t \in 1..EvalTasks : EvaluateStart(t) \/ EvaluateReturn(t)

SpecRace == InitRace /\ [][NextRace]_vars

InitSchema ==
    /\ InitChat
    /\ InitPipeline
    /\ InitSide
    /\ \E schema \in Schemas :
          bridge = [pc |-> "input", schema |-> schema, out |-> Dict(<<>>),
                    twice |-> Dict(<<>>)]

NextSchema == ConvertTool \/ ConvertAgain

SpecSchema == InitSchema /\ [][NextSchema]_vars

(***************************************************************************)
(* Properties.                                                             *)
(***************************************************************************)
CallParts(turn) == {k \in DOMAIN turn.parts : turn.parts[k].kind = "function_call"}

ErrorParts(parts) == {k \in DOMAIN parts : parts[k].key = "error"}

ToolTurns == {j \in DOMAIN contents : contents[j].role = "tool"}

RECURSIVE RequestedCalls(_, _)
RequestedCalls(cont, j) ==
    IF j = 0 THEN 0
    ELSE RequestedCalls(cont, j - 1)
            + (IF cont[j].role = "model" THEN Cardinality(CallParts(cont[j])) ELSE 0)

RECURSIVE ReportedErrors(_, _)
ReportedErrors(cont, j) ==
    IF j = 0 THEN 0
    ELSE ReportedErrors(cont, j - 1)
            + (IF cont[j].role = "tool" THEN Cardinality(ErrorParts(cont[j].parts)) ELSE 0)

\* the calls of the round in progress that are still to be made
Pending == IF pc = "tools" THEN Len(response.calls) - (fcIndex - 1) ELSE 0

\* C1: every tool turn fed back to the model holds exactly as many results as
\* the model turn before it holds function calls, whichever calls raised, gave
\* no content or gave content that is no text; within a round one result is
\* collected per call made.
C1_ResultsMatchRequests ==
    /\ \A j \in ToolTurns :
          /\ j > 1
          /\ contents[j - 1].role = "model"
          /\ Len(contents[j].parts) = Cardinality(CallParts(contents[j - 1]))
    /\ pc = "tools" => Len(toolParts) = fcIndex - 1

C1_Witness ==
    \E j \in ToolTurns :
        /\ Len(contents[j].parts) = 2
        /\ contents[j].parts[1].value = "AttributeError"
        /\ contents[j].parts[2].value = "Success"

\* C2: against a model that requests a tool in every response the loop stops
\* after 10 rounds (and reports ToolLoopExceeded): an 11th round never begins.
C2_LoopStopsAtMaxRounds == rounds <= 10

\* C3: process_chat returns through the final response extraction only when
\* the last model response holds no function call, and a response that holds
\* function calls, with or without text, is followed by the tool round.
C3_DoneOnlyWithoutCalls ==
    /\ exit = "final" => response.calls = <<>>
    /\ (exit = "none" /\ modelCalls > 0 /\ response.calls # <<>>) => pc = "tools"

C3_Witness ==
    /\ exit = "final"
    /\ rounds = 1
    /\ firstResponse.text # <<>>
    /\ firstResponse.calls # <<>>
    /\ response.calls = <<>>

\* the Response Normalizer: trim, strip the fences, parse; the parsed value,
\* or the fallback with the raw text; the fixed apology when there is no text
Unfenced(text) == Strip(StripFences(Strip(text)))

Parses(text) == Len(Unfenced(text)) = 1 /\ Unfenced(text)[1] \in JsonBodies

Defaulted(text) ==
    [type |-> "dict", text |-> text, emotion |-> "default", action |-> "none"]

Normalizer(text) ==
    IF text = <<>> THEN Defaulted(<<"no_reply_text">>)
    ELSE IF Parses(text) THEN JsonValue(Unfenced(text)[1])
    ELSE Defaulted(text)

\* C4: when the first model response requests no tool, process_chat has made
\* exactly one model call and no tool call, has appended no turn to the
\* converted history, and returns the Response Normalizer's output for that
\* response's text.
C4_NoToolSingleRound ==
    (modelCalls > 0 /\ failedAt # "first_call" /\ firstResponse.calls = <<>>)
        => /\ exit = "final"
           /\ modelCalls = 1
           /\ toolCalls = 0
           /\ rounds = 0
           /\ contents = ConvertHistory(request.history, request.message)
           /\ reply = Normalizer(firstResponse.text)

C4_Witness ==
    /\ exit = "final"
    /\ modelCalls = 1
    /\ firstResponse = [text  |-> <<"fence", "jsontag", "ws", "reply", "ws", "fence">>,
                        calls |-> <<>>]
    /\ reply = JsonValue("reply")

\* C5: a tool call that raises yields an error result for that call, the
\* remaining calls of the round are still made, and the round ends in the
\* next model call: process_chat never ends inside a round and never raises.
C5_ToolFailureAbsorbed ==
    /\ exit # "raised"
    /\ toolCalls = RequestedCalls(contents, Len(contents)) - Pending
    /\ toolFailures = ReportedErrors(contents, Len(contents))
                        + (IF pc = "tools" THEN Cardinality(ErrorParts(toolParts)) ELSE 0)
    /\ pc = "tools" => \A k \in DOMAIN toolParts : toolParts[k].name = response.calls[k]
    /\ pc = "returned" => modelCalls = rounds + 1 \/ failedAt = "setup"

C5_Witness ==
    /\ exit = "final"
    /\ \E j \in ToolTurns :
          /\ Len(contents[j].parts) = 2
          /\ contents[j].parts[1] = FunctionResponsePart("get_current_time", "error", "ToolError")
          /\ contents[j].parts[2].key = "result"

\* C6: a failure of the session setup or of a model call (the first, or one
\* after a tool round) never leaves process_chat as an exception: it returns
\* the fixed apology with emotion "default" and action "none".
C6_FailureGivesApology ==
    /\ exit # "raised"
    /\ failedAt # "none" =>
          /\ pc = "returned"
          /\ reply = Defaulted(<<"communication_error">>)

C6_Witness ==
    /\ failedAt = "next_call"
    /\ rounds = 1
    /\ reply = Defaulted(<<"communication_error">>)

\* C7: every value process_chat returns is a mapping with the fields text,
\* emotion and action.
C7_ReplyIsStructured ==
    pc = "returned" =>
        /\ reply.type = "dict"
        /\ {"text", "emotion", "action"} \subseteq DOMAIN reply

\* C8: a final text that does not parse after trimming and fence-stripping
\* gives the reply {text: the text as the model gave it, emotion "default",
\* action "none"} and no exception; a fenced well-formed reply gives its
\* three fields.
C8_ParseFailureFallsBack ==
    /\ exit # "raised"
    /\ (exit = "final" /\ response.text # <<>> /\ ~Parses(response.text))
          => reply = Defaulted(response.text)
    /\ (exit = "final"
          /\ response.text = <<"fence", "jsontag", "ws", "reply", "ws", "fence">>)
          => reply = [type |-> "dict", text |-> <<"hi">>,
                      emotion |-> "joy", action |-> "nod"]

C8_Witness ==
    /\ exit = "final"
    /\ response.text = <<"ws", "junk", "ws">>
    /\ reply = Defaulted(<<"ws", "junk", "ws">>)

\* C9: a POST /chat request never fails with an exception; it completes with
\* the reply of process_chat and the request's history followed by the user
\* turn and the model turn.
C9_EndpointCompletes ==
    caller = "endpoint" =>
        /\ http.status # "raised"
        /\ http.status = "ok" =>
              /\ http.reply = reply
              /\ http.history = request.history
                    \o <<HistoryEntry("user", request.message),
                         HistoryEntry("model", ReplyText(reply))>>

\* C10: the learning-notes log never holds more than 20 notes, and after k
\* successful appends to the empty log it holds the notes k - min(k, 20) + 1
\* to k, oldest first.
C10_NotesBounded ==
    /\ Len(notes) <= 20
    /\ Len(notes) = Min(appended, 20)
    /\ \A i \in DOMAIN notes : notes[i] = PdcaNote(appended - Len(notes) + i)

C10_Witness ==
    /\ appended = 25
    /\ Len(notes) = 20
    /\ notes[1] = PdcaNote(6)
    /\ notes[20] = PdcaNote(25)

\* C11: when run_pdca_check coroutines interleave at their awaited model
\* calls, the note of every coroutine that appended is in the log afterwards,
\* unless 20 later notes have pushed it out, and the notes stand in the order
\* in which they were appended.
C11_NoNoteLost ==
    /\ \A t \in DOMAIN evalTasks :
          (evalTasks[t].note > 0 /\ appended - evalTasks[t].note < 20)
              => \E i \in DOMAIN notes : notes[i] = PdcaNote(evalTasks[t].note)
    /\ \A i, j \in DOMAIN notes : i < j => notes[i].n < notes[j].n

\* the first coroutine awaited its model call while the second one started,
\* appended and returned; then the first one appended
C11_Witness ==
    /\ evalTasks[1].pc = "done"
    /\ evalTasks[2].pc = "done"
    /\ evalTasks[1].call < evalTasks[2].call
    /\ 0 < evalTasks[2].note
    /\ evalTasks[2].note < evalTasks[1].note
    /\ notes[Len(notes)] = PdcaNote(evalTasks[1].note)
    /\ notes[Len(notes) - 1] = PdcaNote(evalTasks[2].note)

\* the files of ANALYSES_DIR that json.load reads
ReadableKeys == {k \in DOMAIN analyses : "partial" \notin DOMAIN analyses[k]}

\* C12: a cycle that starts with fewer than 2 readable records gets through
\* run_pdca_check without a news fetch and without a model call of the
\* evaluation, with the learning notes and the analysis files as they were,
\* and is then at the model call of analyze_news, not evaluated.
C12_TooFewIsNoOp ==
    [][(cyc.pc = "idle" /\ cyc'.pc # "idle" /\ Cardinality(ReadableKeys) < 2)
          => /\ cyc'.pc = "analyze_await"
             /\ ~cyc'.evaluated
             /\ evalFetches' = evalFetches
             /\ evalCalls' = evalCalls
             /\ notes' = notes
             /\ notesExists' = notesExists
             /\ analyses' = analyses]_vars

\* the second cycle, started with one record on disk
C12_Witness ==
    /\ cycles = 2
    /\ Cardinality(ReadableKeys) = 1
    /\ cyc.pc = "analyze_await"
    /\ ~cyc.evaluated
    /\ evalCalls = 0
    /\ evalFetches = 0
    /\ ~notesExists

\* the records that are newer than the record at key k, or that record
NotOlder(k) == {j \in ReadableKeys : j >= k}

\* C13: while the evaluation awaits its model call, its anchor is the
\* timestamp of the oldest of the 5 newest records (of the oldest record when
\* there are fewer than 5); an evaluation that changes the learning notes
\* adds one note behind the notes that were there.
C13_AnchorIsOldestOfWindow ==
    /\ [](cyc.pc = "pdca_await" =>
            \E k \in ReadableKeys :
                /\ Cardinality(NotOlder(k)) = Min(5, Cardinality(ReadableKeys))
                /\ cyc.anchor = analyses[k].timestamp)
    /\ [][(notes' # notes /\ Len(notes) < 20)
             => /\ cyc.pc = "pdca_await"
                /\ Len(notes') = Len(notes) + 1
                /\ SubSeq(notes', 1, Len(notes)) = notes
                /\ notes'[Len(notes')] = PdcaNote(appended')
                /\ appended' = appended + 1]_vars

\* six records T1..T6 on disk and the evaluation anchored at T2
C13_Witness ==
    /\ Cardinality(ReadableKeys) = 6
    /\ cyc.pc = "pdca_await"
    /\ Cardinality({k \in ReadableKeys : k < cyc.anchor.minute}) = 1
    /\ Cardinality({k \in ReadableKeys : k > cyc.anchor.minute}) = 4
    /\ Len(notes) = 4

\* C14: every save_analysis call that returned left one more record in the
\* store, and no step changes or removes a record that is in the store.
C14_RecordsNeverOverwritten ==
    /\ [](Cardinality(ReadableKeys) = saves)
    /\ [][\A k \in ReadableKeys :
             k \in DOMAIN analyses' /\ analyses'[k] = analyses[k]]_vars

\* C15: no run of run_analysis_cycle ends with an exception, whichever of its
\* steps failed, and after any run the next one can start.
C15_CycleNeverRaises ==
    /\ lastExit # "raised"
    /\ (cyc.pc = "idle" /\ proc = "armed" /\ cycles < PipelineCycles)
          => ENABLED CycleStart(PipelineCycles, AllFaults, MaxFaults)

\* the files that loaded when the latest query ran
SeenKeys == {k \in DOMAIN latest.store : "partial" \notin DOMAIN latest.store[k]}

\* C16: a latest query that ran with no file in ANALYSES_DIR answered
\* {status: "no_data", analysis: None}, not an error.
C16_NoDataWhenEmpty ==
    (latest.asked /\ DOMAIN latest.store = {})
        => /\ latest.status = "no_data"
           /\ latest.analysis = [none |-> TRUE]

\* the query ran before the first cycle opened its file
C16_Witness ==
    /\ latest.asked
    /\ DOMAIN latest.store = {}
    /\ latest.persisted = 0
    /\ latest.status = "no_data"

\* C17: a latest query that ran after at least one save_analysis call had
\* returned answered "ok" with the newest fully written record, also while a
\* cycle was writing.
C17_LatestSeesNewestRecord ==
    (latest.asked /\ latest.persisted >= 1)
        => /\ latest.status = "ok"
           /\ \E k \in SeenKeys :
                 /\ latest.analysis = latest.store[k]
                 /\ \A j \in SeenKeys : j <= k

RECURSIVE TypesUpper(_, _)
\* every string under a "type" key of v is upper case, at every depth reached
\* through dicts and, with intoLists, through lists as well
TypesUpper(v, intoLists) ==
    CASE v.t = "dict" ->
            \A k \in DOMAIN v.d :
                /\ (k = "type" /\ v.d[k].t = "str") => v.d[k].s \in {"STRING", "OBJECT"}
                /\ TypesUpper(v.d[k], intoLists)
      [] v.t = "list" ->
            intoLists => \A i \in DOMAIN v.l : TypesUpper(v.l[i], intoLists)
      [] OTHER -> TRUE

RECURSIVE Blank(_)
\* v with the strings under the "type" keys of its nested dicts blanked
Blank(v) ==
    IF v.t = "dict"
    THEN [t |-> "dict",
          d |-> [k \in DOMAIN v.d |->
                    IF k = "type" /\ v.d[k].t = "str"
                    THEN [t |-> "str", s |-> "_"]
                    ELSE Blank(v.d[k])]]
    ELSE v

\* what C18 says of a conversion apart from the depth of the upper-casing
BridgeShape ==
    /\ Blank(bridge.out) = Blank(bridge.schema)
    /\ ("properties" \in DOMAIN bridge.schema.d
            /\ bridge.schema.d["properties"].t = "list")
          => bridge.out.d["properties"] = bridge.schema.d["properties"]
    /\ bridge.pc = "twice" => bridge.twice = bridge.out

\* C18 as stated: convert_schema is idempotent, keeps the keys and the nesting
\* of its input, changes only strings under "type" keys, and has upper-cased
\* these at every nesting depth, inside lists too.
C18_TypesUpperAtEveryDepth ==
    bridge.pc \in {"converted", "twice"}
        => BridgeShape /\ TypesUpper(bridge.out, TRUE)

\* C18: convert_schema is idempotent, keeps the keys and the nesting of its
\* input, changes only strings under "type" keys, and has upper-cased these
\* at every depth reached through dict values; a list value, under
\* "properties" or any other key, is passed through as it is, with the
\* "type" strings of the dicts it holds.
C18_TypesUpperThroughDicts ==
    bridge.pc \in {"converted", "twice"}
        => /\ BridgeShape
           /\ TypesUpper(bridge.out, FALSE)
           /\ \A k \in DOMAIN bridge.schema.d :
                 bridge.schema.d[k].t = "list" => bridge.out.d[k] = bridge.schema.d[k]

\* a "type" three dicts down was upper-cased, the one inside the anyOf list
\* was not, and a second conversion changed nothing
C18_Witness ==
    /\ bridge.pc = "twice"
    /\ DOMAIN bridge.schema.d = {"type", "properties", "anyOf"}
    /\ bridge.schema.d["type"] = [t |-> "str", s |-> "Object"]
    /\ bridge.out.d["type"] = [t |-> "str", s |-> "OBJECT"]
    /\ bridge.schema.d["properties"].t = "dict"
    /\ DOMAIN bridge.schema.d["properties"].d = {"location"}
    /\ DOMAIN bridge.schema.d["properties"].d["location"].d = {"type", "items"}
    /\ bridge.schema.d["properties"].d["location"].d["items"].t = "dict"
    /\ DOMAIN bridge.schema.d["properties"].d["location"].d["items"].d = {"type"}
    /\ bridge.schema.d["properties"].d["location"].d["items"].d["type"].s = "string"
    /\ bridge.out.d["properties"].d["location"].d["items"].d["type"].s = "STRING"
    /\ bridge.schema.d["anyOf"].l = <<[t |-> "dict", d |-> [type |-> [t |-> "str", s |-> "string"]]]>>
    /\ bridge.out.d["anyOf"] = bridge.schema.d["anyOf"]
    /\ bridge.twice = bridge.out

\* the turns process_chat builds from the request: the history and the message
BaseTurns == ConvertHistory(request.history, request.message)

\* C19: no step of a chat request changes or removes a turn that is in
\* contents; behind the turns of the request, contents holds for every round
\* the model turn with its function calls and then one tool turn with one
\* result per call, so every tool turn stands right behind the model turn
\* that asked for it, and only the turns of the round in progress are missing.
C19_HistoryAppendOnly ==
    /\ [][pc # "idle" => /\ Len(contents) <= Len(contents')
                         /\ SubSeq(contents', 1, Len(contents)) = contents]_vars
    /\ [](caller = "direct" =>
            /\ SubSeq(contents, 1, Len(BaseTurns)) = BaseTurns
            /\ Len(contents) = Len(BaseTurns) + 2 * rounds - (IF pc = "tools" THEN 1 ELSE 0)
            /\ \A j \in (Len(BaseTurns) + 1)..Len(contents) :
                  IF (j - Len(BaseTurns)) % 2 = 1
                  THEN /\ contents[j].role = "model"
                       /\ CallParts(contents[j]) # {}
                  ELSE /\ contents[j].role = "tool"
                       /\ contents[j - 1].role = "model"
                       /\ Len(contents[j].parts) = Cardinality(CallParts(contents[j - 1])))

\* a request that went through one round with two calls and then ended
C19_Witness ==
    /\ caller = "direct"
    /\ pc = "returned"
    /\ exit = "final"
    /\ rounds = 1
    /\ Len(contents) = 3
    /\ contents[1].role = "user"
    /\ contents[2].role = "model"
    /\ Cardinality(CallParts(contents[2])) = 2
    /\ contents[3].role = "tool"
    /\ Len(contents[3].parts) = 2

ObjectTexts ==
    { <<"object">>,
      <<"nl", "object", "ws">>,
      <<"fence", "jsontag", "nl", "object", "nl", "fence">>,
      <<"fence", "nl", "object", "fence">>,
      <<"fence", "jsontag", "nl", "object">>,
      <<"fence", "jsontag", "nl", "object", "nl", "fence", "nl", "junk">> }

\* the model call returned and its text holds a JSON object
Usable(r) == r.api /\ r.text \in ObjectTexts

\* store differs from before in the one file at key, which holds record
OneRecordWritten(before, store, key, record) ==
    /\ DOMAIN store = DOMAIN before \cup {key}
    /\ store[key] = record
    /\ \A k \in DOMAIN before \ {key} : store[k] = before[k]

\* C21: when the analysis model call fails, or its output is invalid JSON, a
\* fence without a newline or JSON that is no object, the record the cycle
\* is about to persist is the fallback (sentiment "neutral", no predictions,
\* the error text in `error`); the record has no `error` field only when the
\* output parsed to an object; and the cycle persists exactly that one record
C21_FallbackOnFailure ==
    /\ [](cyc.pc = "saving" =>
            IF Usable(cyc.modelOut)
            THEN "error" \notin DOMAIN cyc.analysis
            ELSE /\ "error" \in DOMAIN cyc.analysis
                 /\ cyc.analysis.error \in {"APIError", "JSONDecodeError",
                                            "IndexError", "TypeError"}
                 /\ cyc.analysis.market_sentiment = "neutral"
                 /\ cyc.analysis.predictions = <<>>)
    /\ [][cyc.pc = "saving" /\ cyc'.pc = "idle" =>
            /\ saves' = saves + 1
            /\ OneRecordWritten(analyses, analyses', now, cyc.analysis)]_vars

\* three cycles ended: one whose model wrote a fence without a newline, one
\* whose model wrote a JSON list, and one whose model call failed
C21_Witness ==
    /\ cyc.pc = "idle"
    /\ saves = 3
    /\ \E i, j, k \in DOMAIN analyses :
          /\ "error" \in DOMAIN analyses[i] /\ analyses[i].error = "IndexError"
          /\ "error" \in DOMAIN analyses[j] /\ analyses[j].error = "TypeError"
          /\ "error" \in DOMAIN analyses[k] /\ analyses[k].error = "APIError"

\* the texts of ModelTexts that hold one JSON value, bare or inside a code
\* block whose opening line ends with a newline
ValueTexts ==
    ObjectTexts \cup { <<"list">>, <<"num">>,
                       <<"fence", "jsontag", "nl", "list", "nl", "fence">> }

\* the model call of the evaluation failed or its text holds no JSON value
EvaluationFailed(r) == ~(r.api /\ r.text \in ValueTexts)

\* C22: when the model call of the self-evaluation fails or its output does
\* not parse, the learning-notes file is left as it was (nothing appended,
\* nothing evicted, not written), and the cycle goes on: it fetches, its
\* next step is the analysis and the step after that persists the record
C22_FailedEvaluationLeavesNotes ==
    /\ [][cyc.pc = "pdca_await" /\ cyc'.pc # "pdca_await"
             /\ EvaluationFailed(cyc'.pdcaOut) =>
            /\ notes' = notes
            /\ notesExists' = notesExists
            /\ appended' = appended
            /\ cyc'.pc = "analyze_await"
            /\ evalFetches' = evalFetches]_vars
    /\ [][cyc.evaluated /\ EvaluationFailed(cyc.pdcaOut) /\ cyc' # cyc =>
            \/ /\ cyc.pc = "analyze_await"
               /\ cyc'.pc = "saving"
               /\ cyc'.analysis.timestamp = Stamp(now, cycles)
               /\ notes' = notes
            \/ /\ cyc.pc = "saving"
               /\ cyc'.pc = "idle"
               /\ lastExit' = "returned"
               /\ now \in DOMAIN analyses'
               /\ analyses'[now] = cyc.analysis
               /\ notes' = notes]_vars

\* a cycle whose evaluation got a fence without a newline is about to persist
\* its record, with the twenty notes of earlier cycles still on disk
C22_Witness ==
    /\ cyc.pc = "saving"
    /\ cyc.evaluated
    /\ cyc.pdcaOut = TextResult(<<"fence", "object", "fence">>)
    /\ notesExists
    /\ Len(notes) = 20
    /\ appended > 20

\* x is the result of a query that returned in the fetch of the cycle
FromReturnedQuery(x) == \E i \in cyc.okq : Queries[i] = x

\* C23: a failing news query contributes nothing and does not end the fetch:
\* the news the cycle analyzes are the results of the queries that returned,
\* in query order (none when all four failed), and the analysis of the cycle
\* is made over exactly these
C23_FetchSurvivesFailedQueries ==
    /\ cyc.pc \in {"analyze_await", "saving"} =>
          /\ cyc.news = SelectSeq(Queries, FromReturnedQuery)
          /\ Len(cyc.news) = Cardinality(cyc.okq)
    /\ (cyc.pc = "saving" /\ "news_count" \in DOMAIN cyc.analysis) =>
          cyc.analysis.news_count = Cardinality(cyc.okq)

\* the first and the third query failed, the second and the fourth returned,
\* and the analysis over their results is about to be saved
C23_Witness ==
    /\ cyc.pc = "saving"
    /\ cyc.okq = {2, 4}
    /\ cyc.news = <<"sp500", "policy">>
    /\ "news_count" \in DOMAIN cyc.analysis

\* C24: the cycle of the process start runs to its end, returned or raised,
\* before the periodic job exists: while it runs nothing is scheduled, a
\* cycle begins only as that first cycle or from the armed scheduler, and
\* the scheduler is armed exactly when the first cycle ends, a failed one
\* included
C24_StartupCycleBeforeScheduler ==
    /\ [](proc = "startup" => cyc.pc # "idle")
    /\ [][cyc.pc = "idle" /\ cyc'.pc # "idle" =>
            \/ proc = "starting" /\ proc' = "startup"
            \/ proc = "armed" /\ proc' = "armed"]_vars
    /\ [][proc # "armed" /\ proc' = "armed" =>
            /\ proc = "startup"
            /\ cyc.pc # "idle"
            /\ cyc'.pc = "idle"
            /\ lastExit' \in {"returned", "raised"}]_vars
    /\ [][proc = "startup" /\ cyc.pc # "idle" /\ cyc'.pc = "idle" =>
            proc' = "armed"]_vars

\* the first cycle of the process raised, and the second cycle, started by
\* the scheduler, is running
C24_Witness ==
    /\ restarts = 0
    /\ lastExit = "raised"
    /\ cycles = 2
    /\ cyc.pc # "idle"
    /\ proc = "armed"

\* every entry is an object whose content, when present, is one object or a
\* list of objects
WellFormed(history) == \A i \in DOMAIN history : history[i] \in HistoryForms

\* the text of an entry of HistoryForms: that of its content when the
\* content is one object, that of the first object when it is a list, and
\* no text where there is none
ExpectedText(entry) ==
    IF "parts" \notin DOMAIN entry THEN <<>>
    ELSE IF entry.parts.isdict
    THEN (IF "text" \in DOMAIN entry.parts.dict THEN entry.parts.dict.text ELSE <<>>)
    ELSE IF entry.parts.list = <<>> THEN <<>>
    ELSE IF "text" \in DOMAIN entry.parts.list[1] THEN entry.parts.list[1].text
    ELSE <<>>

\* C25: a history of n entries, each with or without role and with content
\* missing, empty, one object or a list of objects, is converted without
\* raising into n turns in the same order, a missing role read as "user" and
\* missing or empty content as empty text, followed by the new user message
\* as turn n + 1; the history of the caller is never changed
C25_HistoryConverted ==
    /\ []((caller = "direct" /\ WellFormed(request.history)) =>
            /\ exit # "raised"
            /\ Len(contents) = Len(request.history) + 1
            /\ \A i \in DOMAIN request.history :
                  /\ contents[i].role = (IF "role" \in DOMAIN request.history[i]
                                         THEN request.history[i].role ELSE "user")
                  /\ contents[i].parts =
                        <<[kind |-> "text", text |-> ExpectedText(request.history[i])]>>
            /\ contents[Len(contents)] =
                  [role |-> "user",
                   parts |-> <<[kind |-> "text", text |-> request.message]>>])
    /\ [][caller = "direct" => request' = request]_vars

\* a history of an entry without content and an entry without role whose
\* content is one object has become three turns
C25_Witness ==
    /\ caller = "direct"
    /\ pc = "model"
    /\ request.history = <<[role |-> "user"],
                           [parts |-> [isdict |-> TRUE, dict |-> [text |-> <<"hi">>]]]>>
    /\ Len(contents) = 3
    /\ contents[2] = [role |-> "user", parts |-> <<[kind |-> "text", text |-> <<"hi">>]>>]

====
